---- MODULE Spec2Model ----
(***************************************************************************)
(* A model of BrainFlowCHOP.py: the Script CHOP callback onCook, which     *)
(* polls an EEG board, optionally Kalman-filters the samples, resamples    *)
(* them, optionally takes the FFT magnitude, writes the CHOP channels and  *)
(* sends one OSC message per output sample.                                *)
(*                                                                         *)
(* Numbers are exact rationals [n, d] (d > 0, lowest terms); [0, 0] is     *)
(* NaN.  Strings that the code parses are sequences of one-character       *)
(* strings, so that split / startswith / int are modelled by what they do. *)
(***************************************************************************)
EXTENDS Integers, Sequences, FiniteSets, TLC

VARIABLES
    board,                        \* global board: None or Some(the BoardShim)
    params,                       \* global params (BrainFlowInputParams)
    osc_client,                   \* global osc_client: None or the client
    kalman_state_estimates,       \* global: None or one estimate per row
    kalman_estimate_covariances,  \* global: None or one covariance per row
    last_cleanup_time,            \* global: time of the last cleanup
    name,                         \* scriptOp.name
    chop,                         \* scriptOp's channels, as seen downstream
    now,                          \* the wall clock, time.time()
    cycle,                        \* what the last call of onCook did
    cleanups,                     \* the times at which gc.collect() ran
    kf,                           \* harness: one call of kalman_filter
    rt                            \* harness: one resolution of Oscchannels

vars == <<board, params, osc_client, kalman_state_estimates,
          kalman_estimate_covariances, last_cleanup_time, name, chop, now,
          cycle, cleanups, kf, rt>>

\* an optional value is a sequence of at most one element
None == <<>>
Some(x) == <<x>>

-----------------------------------------------------------------------------
(* Bounds of the model.                                                    *)

MaxNum == 2        \* numerators of the numbers drawn as inputs: -MaxNum..MaxNum
MaxDen == 2        \* denominators of the numbers drawn as inputs: 1..MaxDen
MaxTokens == 3     \* tokens in a generated Oscchannels string
MaxChannels == 4   \* raw channel counts tried by the router harness
MaxClock == 122    \* the clock stops advancing beyond this
MaxState == 3      \* largest denominator kept in the Kalman state

-----------------------------------------------------------------------------
(* Exact arithmetic.                                                       *)

Abs(x) == IF x < 0 THEN -x ELSE x

RECURSIVE Gcd(_, _)
Gcd(a, b) == IF b = 0 THEN a ELSE Gcd(b, a % b)

NaN == [n |-> 0, d |-> 0]

IsNaN(x) == x.d = 0

Norm(n, d) ==
    IF d = 0 THEN NaN
    ELSE LET g == Gcd(Abs(n), Abs(d))
             s == IF d < 0 THEN -1 ELSE 1
         IN [n |-> s * (n \div g), d |-> s * (d \div g)]

Num(i) == [n |-> i, d |-> 1]

Add(x, y) == IF IsNaN(x) \/ IsNaN(y) THEN NaN
             ELSE Norm(x.n * y.d + y.n * x.d, x.d * y.d)

Sub(x, y) == IF IsNaN(x) \/ IsNaN(y) THEN NaN
             ELSE Norm(x.n * y.d - y.n * x.d, x.d * y.d)

Mul(x, y) == IF IsNaN(x) \/ IsNaN(y) THEN NaN
             ELSE Norm(x.n * y.n, x.d * y.d)

\* x / y for y # 0
Div(x, y) == IF IsNaN(x) \/ IsNaN(y) THEN NaN
             ELSE Norm(x.n * y.d, x.d * y.n)

IsZero(x) == ~IsNaN(x) /\ x.n = 0

Positive(x) == ~IsNaN(x) /\ x.n > 0

Finite(x) == ~IsNaN(x)

AbsVal(x) == IF IsNaN(x) THEN NaN ELSE [n |-> Abs(x.n), d |-> x.d]

-----------------------------------------------------------------------------
(* kalman_filter (numba @njit, default error model: a float division by    *)
(* zero raises ZeroDivisionError).                                         *)

\* the mutant of kalman_filter that forgets the NaN reset
kalman_filter_noreset(data, process_noise, measurement_noise, state_estimate, estimate_covariance) ==
    LET p1 == Add(estimate_covariance, process_noise)
        den == Add(p1, measurement_noise)
    IN IF IsZero(den)
       THEN [raised |-> TRUE, state_estimate |-> state_estimate,
             estimate_covariance |-> estimate_covariance]
       ELSE LET kalman_gain == Div(p1, den)
            IN [raised |-> FALSE,
                state_estimate |-> Add(state_estimate, Mul(kalman_gain, Sub(data, state_estimate))),
                estimate_covariance |-> Mul(Sub(Num(1), kalman_gain), p1)]

kalman_filter(data, process_noise, measurement_noise, state_estimate, estimate_covariance) ==
    LET reset == IsNaN(state_estimate) \/ IsNaN(estimate_covariance)
        e0 == IF reset THEN Num(0) ELSE state_estimate
        c0 == IF reset THEN Num(1) ELSE estimate_covariance
        p1 == Add(c0, process_noise)
        den == Add(p1, measurement_noise)
    IN IF IsZero(den)
       THEN [raised |-> TRUE, state_estimate |-> state_estimate,
             estimate_covariance |-> estimate_covariance]
       ELSE LET kalman_gain == Div(p1, den)
            IN [raised |-> FALSE,
                state_estimate |-> Add(e0, Mul(kalman_gain, Sub(data, e0))),
                estimate_covariance |-> Mul(Sub(Num(1), kalman_gain), p1)]

-----------------------------------------------------------------------------
(* Strings: sequences of one-character strings.                            *)

S_chan == <<"c", "h", "a", "n">>
S_fft_chan == <<"f", "f", "t", "_", "c", "h", "a", "n">>
S_star == <<"*">>
S_brainflow == <<"b", "r", "a", "i", "n", "f", "l", "o", "w">>

DigitChars == <<"0", "1", "2", "3", "4", "5", "6", "7", "8", "9">>

IsDigit(c) == \E i \in 1..10 : DigitChars[i] = c

DigitVal(c) == (CHOOSE i \in 1..10 : DigitChars[i] = c) - 1

\* str.startswith
startswith(s, prefix) ==
    Len(s) >= Len(prefix) /\ SubSeq(s, 1, Len(prefix)) = prefix

\* str.isdigit: non-empty and all digits
isdigit(s) == s # <<>> /\ \A i \in 1..Len(s) : IsDigit(s[i])

\* str(i) for i >= 0
RECURSIVE str(_)
str(i) == IF i < 10 THEN <<DigitChars[i + 1]>>
          ELSE str(i \div 10) \o <<DigitChars[(i % 10) + 1]>>

\* str.split() with no argument: runs of whitespace separate, no empty tokens
RECURSIVE SplitFrom(_, _, _)
SplitFrom(s, i, cur) ==
    LET done == IF cur = <<>> THEN <<>> ELSE <<cur>>
    IN IF i > Len(s) THEN done
       ELSE IF s[i] = " " THEN done \o SplitFrom(s, i + 1, <<>>)
       ELSE SplitFrom(s, i + 1, Append(cur, s[i]))

split(s) == SplitFrom(s, 1, <<>>)

\* int(s) accepts an optional sign, then digits, single underscores allowed
\* between digits; anything else raises ValueError
IntBody(s) == IF s # <<>> /\ s[1] \in {"+", "-"} THEN Tail(s) ELSE s

IntOk(s) ==
    LET b == IntBody(s)
    IN /\ b # <<>>
       /\ IsDigit(b[1]) /\ IsDigit(b[Len(b)])
       /\ \A i \in 1..Len(b) : IsDigit(b[i]) \/ b[i] = "_"
       /\ \A i \in 1..(Len(b) - 1) : ~(b[i] = "_" /\ b[i + 1] = "_")

RECURSIVE DigitsVal(_, _)
DigitsVal(b, acc) ==
    IF b = <<>> THEN acc
    ELSE IF b[1] = "_" THEN DigitsVal(Tail(b), acc)
    ELSE DigitsVal(Tail(b), 10 * acc + DigitVal(b[1]))

IntVal(s) ==
    IF s[1] = "-" THEN -DigitsVal(IntBody(s), 0) ELSE DigitsVal(IntBody(s), 0)

-----------------------------------------------------------------------------
(* The channel router of onCook, lines 213-229.                            *)

Range0(n) == [i \in 1..n |-> i - 1]     \* list(range(n))

\* the mutant: the spectral channels are counted whether or not FFT is on
total_channels_always(num_channels, fft_active) == num_channels + num_channels

total_channels(num_channels, fft_active) ==
    num_channels + (IF fft_active THEN num_channels ELSE 0)

\* the mutant: the upper bound of the range test is off by one
InRange_offbyone(chan_index, num_channels) ==
    0 <= chan_index /\ chan_index <= num_channels

InRange(chan_index, num_channels) ==
    0 <= chan_index /\ chan_index < num_channels

\* one token of the explicit list: what it appends, or that int() raised
Token(chan, num_channels) ==
    IF startswith(chan, S_chan)
    THEN LET digits == SubSeq(chan, 5, Len(chan))
         IN IF ~IntOk(digits) THEN [raised |-> TRUE, add |-> <<>>]
            ELSE LET chan_index == IntVal(digits) - 1
                 IN [raised |-> FALSE,
                     add |-> IF InRange(chan_index, num_channels)
                             THEN <<chan_index>> ELSE <<>>]
    ELSE IF startswith(chan, S_fft_chan)
    THEN LET digits == SubSeq(chan, 9, Len(chan))
         IN IF ~IntOk(digits) THEN [raised |-> TRUE, add |-> <<>>]
            ELSE LET chan_index == IntVal(digits) - 1
                 IN [raised |-> FALSE,
                     add |-> IF InRange(chan_index, num_channels)
                             THEN <<num_channels + chan_index>> ELSE <<>>]
    ELSE [raised |-> FALSE, add |-> <<>>]

RECURSIVE Tokens(_, _, _)
Tokens(toks, num_channels, acc) ==
    IF toks = <<>> THEN [raised |-> FALSE, channels_to_send |-> acc]
    ELSE LET t == Token(toks[1], num_channels)
         IN IF t.raised THEN [raised |-> TRUE, channels_to_send |-> acc]
            ELSE Tokens(Tail(toks), num_channels, acc \o t.add)

channels_to_send(osc_channels, num_channels, fft_active) ==
    IF osc_channels = S_star
    THEN [raised |-> FALSE,
          channels_to_send |-> Range0(total_channels(num_channels, fft_active))]
    ELSE Tokens(split(osc_channels), num_channels, <<>>)


-----------------------------------------------------------------------------
(* The state after the module is loaded, lines 10-19.                      *)

InitTime == 0      \* time.time() when the module is loaded

progvars == <<board, params, osc_client, kalman_state_estimates,
              kalman_estimate_covariances, last_cleanup_time, name, chop,
              now, cycle, cleanups>>

\* what a call of onCook did; before the first call, nothing
NoCycle ==
    [result |-> "none", step |-> "", open_attempted |-> FALSE,
     sink_constructed |-> FALSE, acquired |-> FALSE, cleared |-> FALSE,
     selection |-> None, num_channels |-> 0, fft_active |-> FALSE,
     sent |-> <<>>, cleanup |-> FALSE, par |-> None, sliced_with |-> None]

EmptyChop == [chans |-> <<>>, numSamples |-> 0, vals |-> <<>>]

\* names the operator may have before its first cook
Names == {<<"s", "c", "r", "i", "p", "t", "1">>, S_brainflow \o <<"2">>}

Globals0(nm) ==
    /\ board = None
    /\ params = [serial_port |-> ""]
    /\ osc_client = None
    /\ kalman_state_estimates = None
    /\ kalman_estimate_covariances = None
    /\ now = InitTime
    /\ last_cleanup_time = InitTime
    /\ name = nm
    /\ chop = EmptyChop
    /\ cycle = NoCycle
    /\ cleanups = <<>>

\* the harnesses leave the program as loaded
HarnessInit == Globals0(S_brainflow \o <<"2">>)

Off == [pc |-> "off"]

-----------------------------------------------------------------------------
(* Harness: one call of kalman_filter on inputs drawn from bounded sets.   *)

Rationals == {Norm(n, d) : n \in (-MaxNum)..MaxNum, d \in 1..MaxDen}
Integrals == {Num(n) : n \in (-MaxNum)..MaxNum}

KalmanInit ==
    /\ HarnessInit
    /\ rt = Off
    /\ \E data \in Integrals, pn \in Rationals, mn \in Rationals,
          est \in Integrals \cup {NaN}, cov \in Rationals \cup {NaN} :
          kf = [pc |-> "in", data |-> data, process_noise |-> pn,
                measurement_noise |-> mn, state_estimate |-> est,
                estimate_covariance |-> cov]

KalmanStep ==
    /\ kf.pc = "in"
    /\ kf' = [kf EXCEPT !.pc = "out"] @@
             [out |-> kalman_filter(kf.data, kf.process_noise, kf.measurement_noise,
                                    kf.state_estimate, kf.estimate_covariance)]
    /\ UNCHANGED <<progvars, rt>>

SpecKalman == KalmanInit /\ [][KalmanStep]_vars

-----------------------------------------------------------------------------
(* Harness: one resolution of an Oscchannels string.  The string is        *)
(* rendered from a list of tokens (kind, N) and then parsed as the code    *)
(* parses it.                                                              *)

TokenNumbers == {0, 1, 2, MaxChannels + 1, 99}

TokenSet == [kind : {"chan", "fft_chan"}, N : TokenNumbers]

TokenLists == UNION {[1..k -> TokenSet] : k \in 0..MaxTokens}

Render(t) == (IF t.kind = "chan" THEN S_chan ELSE S_fft_chan) \o str(t.N)

RECURSIVE Join(_, _)
Join(toks, sep) ==
    IF toks = <<>> THEN <<>>
    ELSE IF Len(toks) = 1 THEN Render(toks[1])
    ELSE Render(toks[1]) \o sep \o Join(Tail(toks), sep)

RouterInit ==
    /\ HarnessInit
    /\ kf = Off
    /\ \E C \in 1..MaxChannels, fft \in BOOLEAN :
          \/ rt = [pc |-> "in", star |-> TRUE, tokens |-> <<>>,
                   osc_channels |-> S_star, num_channels |-> C, fft_active |-> fft]
          \/ \E toks \in TokenLists, sep \in {<<" ">>, <<" ", " ">>} :
                rt = [pc |-> "in", star |-> FALSE, tokens |-> toks,
                      osc_channels |-> Join(toks, sep),
                      num_channels |-> C, fft_active |-> fft]

Resolve ==
    /\ rt.pc = "in"
    /\ rt' = [rt EXCEPT !.pc = "out"] @@
             [out |-> channels_to_send(rt.osc_channels, rt.num_channels, rt.fft_active)]
    /\ UNCHANGED <<progvars, kf>>

SpecRouter == RouterInit /\ [][Resolve]_vars


-----------------------------------------------------------------------------
(* The collaborators of onCook.                                            *)

\* BoardIds.__members__: board name -> id
BoardIds == [BOARD_A |-> 0, BOARD_B |-> 1]

\* rows of the array get_current_board_data returns for a board
num_rows(id) == IF id = 0 THEN 3 ELSE 2

\* BoardShim.get_eeg_channels(id): the (0-based) rows that hold EEG data
get_eeg_channels(id) == IF id = 0 THEN <<1, 2>> ELSE <<1>>

\* board.get_current_board_data: rows x n, n the samples buffered (n = 0: none)
get_current_board_data(id, n) ==
    [row \in 1..num_rows(id) |-> [j \in 1..n |-> Num(row + 2 * (j - 1))]]

\* scipy.signal.resample(x, num) along one row, exact for lengths up to 2:
\* equal lengths give x back, 2 -> 1 gives the mean, 1 -> 2 repeats the sample
resample(x, num) ==
    IF Len(x) = num THEN x
    ELSE IF Len(x) = 2 /\ num = 1 THEN <<Div(Add(x[1], x[2]), Num(2))>>
    ELSE <<x[1], x[1]>>

\* np.abs(np.fft.fft(x)) along one row, exact for lengths up to 2
absfft(x) ==
    IF Len(x) = 1 THEN <<AbsVal(x[1])>>
    ELSE <<AbsVal(Add(x[1], x[2])), AbsVal(Sub(x[1], x[2]))>>

-----------------------------------------------------------------------------
(* ensure_unique_name, lines 33-50.                                        *)

\* the other operators of the parent network
Siblings == {S_brainflow \o <<"1">>}

RECURSIVE FirstFree(_, _)
FirstFree(i, existing_names) ==
    IF i >= 1000 THEN 0
    ELSE IF (S_brainflow \o str(i)) \notin existing_names THEN i
    ELSE FirstFree(i + 1, existing_names)

ensure_unique_name(current_name) ==
    IF startswith(current_name, S_brainflow)
       /\ isdigit(SubSeq(current_name, Len(S_brainflow) + 1, Len(current_name)))
    THEN current_name
    ELSE LET existing_names ==
                 {x \in Siblings \cup {current_name} : startswith(x, S_brainflow)}
             i == FirstFree(1, existing_names)
         IN IF i = 0 THEN current_name ELSE S_brainflow \o str(i)

-----------------------------------------------------------------------------
(* onCook, lines 95-255, stage by stage.  A run is a record r:             *)
(*   r.g     the globals and the CHOP as they stand,                       *)
(*   r.l     the locals of the call,                                       *)
(*   r.t     what the call did (kept in the variable cycle),               *)
(*   r.stop  the call has ended (a return, or an exception).               *)
(* in is the parameters of the operator at this cook together with what    *)
(* the environment does: in.fail names the one library call that raises.   *)

CleanupInterval == 60

Stop(r, result, step) ==
    [r EXCEPT !.stop = TRUE, !.t.result = result, !.t.step = step]

\* the mutant: the except clause drops the device session
Error_reset(r, step) == Stop([r EXCEPT !.g.board = None], "error", step)

\* the except clause of line 250: logged, the call returns
Error(r, step) == Stop(r, "error", step)

\* the parameters a call evaluates that later stages and cycles depend on,
\* and the number of samples the poll finds
Par(in) ==
    [board_name |-> in.board_name, osc_address |-> in.osc_address,
     osc_port |-> in.osc_port, osc_message |-> in.osc_message,
     samples |-> in.samples, filter_active |-> in.filter_active,
     process_noise |-> in.process_noise,
     measurement_noise |-> in.measurement_noise,
     initial_state_estimate |-> in.initial_state_estimate,
     initial_estimate_covariance |-> in.initial_estimate_covariance,
     resample_rate |-> in.resample_rate, fft_active |-> in.fft_active,
     osc_channels |-> in.osc_channels]

Start(in) ==
    [g |-> [board |-> board, params |-> params, osc_client |-> osc_client,
            est |-> kalman_state_estimates, cov |-> kalman_estimate_covariances,
            last |-> last_cleanup_time, name |-> ensure_unique_name(name),
            chop |-> chop],
     l |-> [board_id |-> 0, eeg_data |-> <<>>, num_channels |-> 0,
            eeg_data_resampled |-> <<>>, num_samples |-> 0, fft_data |-> <<>>],
     t |-> [NoCycle EXCEPT !.result = "running", !.par = Some(Par(in))],
     stop |-> FALSE]

\* lines 105-107: a name that is no member raises KeyError, outside any try
BoardId(r, in) ==
    IF in.board_name \notin DOMAIN BoardIds THEN Stop(r, "raised", "BoardIds")
    ELSE [r EXCEPT !.l.board_id = BoardIds[in.board_name]]

\* lines 109-119
OpenBoard(r, in) ==
    IF r.stop THEN r ELSE
    IF r.g.board # None THEN r
    ELSE LET r1 == [r EXCEPT !.t.open_attempted = TRUE,
                             !.g.params.serial_port = in.serial_port]
             shim == [id |-> r.l.board_id, prepared |-> FALSE, streaming |-> FALSE]
         IN IF in.fail = "BoardShim" THEN Stop(r1, "open_failed", in.fail)
            ELSE IF in.fail = "prepare_session"
            THEN Stop([r1 EXCEPT !.g.board = Some(shim)], "open_failed", in.fail)
            ELSE IF in.fail = "start_stream"
            THEN Stop([r1 EXCEPT !.g.board = Some([shim EXCEPT !.prepared = TRUE])],
                      "open_failed", in.fail)
            ELSE [r1 EXCEPT !.g.board = Some([shim EXCEPT !.prepared = TRUE,
                                                          !.streaming = TRUE])]

\* the mutant: a sink is constructed in every cycle
OpenSink_always(r, in) ==
    IF r.stop THEN r ELSE
    IF in.fail = "SimpleUDPClient" THEN Stop(r, "raised", in.fail)
    ELSE [r EXCEPT !.t.sink_constructed = TRUE,
                   !.g.osc_client = Some([address |-> in.osc_address,
                                          port |-> in.osc_port])]

\* lines 121-126: the constructor is called outside any try
OpenSink(r, in) ==
    IF r.stop THEN r ELSE
    IF r.g.osc_client # None THEN r
    ELSE IF in.fail = "SimpleUDPClient" THEN Stop(r, "raised", in.fail)
    ELSE [r EXCEPT !.t.sink_constructed = TRUE,
                   !.g.osc_client = Some([address |-> in.osc_address,
                                          port |-> in.osc_port])]

\* the mutant: the Kalman state is allocated before the test for no data
Acquire_allocfirst(r, in) ==
    IF r.stop THEN r ELSE
    LET r1 == [r EXCEPT !.t.acquired = TRUE]
        b == r.g.board[1]
    IN IF in.fail = "get_current_board_data" \/ ~b.prepared \/ ~b.streaming
       THEN Error(r1, "get_current_board_data")
       ELSE LET data == get_current_board_data(b.id, in.samples)
                eeg_channels == get_eeg_channels(r.l.board_id)
                r2 == [r1 EXCEPT !.t.sliced_with = Some(r.l.board_id)]
            IN IF \E i \in 1..Len(eeg_channels) : eeg_channels[i] + 1 > Len(data)
               THEN Error(r2, "eeg_channels")
               ELSE LET eeg_data == [i \in 1..Len(eeg_channels) |->
                                        data[eeg_channels[i] + 1]]
                        r3 == IF r.g.est # None THEN r2
                              ELSE [r2 EXCEPT
                                      !.g.est = Some([i \in 1..Len(eeg_data) |->
                                                        in.initial_state_estimate]),
                                      !.g.cov = Some([i \in 1..Len(eeg_data) |->
                                                        in.initial_estimate_covariance])]
                    IN IF Len(eeg_data) * in.samples = 0
                       THEN Stop(r3, "no_data", "")
                       ELSE [r3 EXCEPT !.l.eeg_data = eeg_data]

\* lines 131-142: a board that is not prepared and streaming raises on the
\* poll; a row index beyond the polled array raises IndexError
Acquire(r, in) ==
    IF r.stop THEN r ELSE
    LET r1 == [r EXCEPT !.t.acquired = TRUE]
        b == r.g.board[1]
    IN IF in.fail = "get_current_board_data" \/ ~b.prepared \/ ~b.streaming
       THEN Error(r1, "get_current_board_data")
       ELSE LET data == get_current_board_data(b.id, in.samples)
                eeg_channels == get_eeg_channels(r.l.board_id)
                r2 == [r1 EXCEPT !.t.sliced_with = Some(r.l.board_id)]
            IN IF \E i \in 1..Len(eeg_channels) : eeg_channels[i] + 1 > Len(data)
               THEN Error(r2, "eeg_channels")
               ELSE LET eeg_data == [i \in 1..Len(eeg_channels) |->
                                        data[eeg_channels[i] + 1]]
                    IN IF Len(eeg_data) * in.samples = 0
                       THEN Stop(r2, "no_data", "")
                       ELSE [r2 EXCEPT !.l.eeg_data = eeg_data]

\* lines 159-168: the loop over (channel, sample), in place on the globals
RECURSIVE FilterLoop(_, _, _, _, _, _)
FilterLoop(eeg_data, est, cov, i, j, in) ==
    IF i > Len(eeg_data)
    THEN [raised |-> FALSE, eeg_data |-> eeg_data, est |-> est, cov |-> cov]
    ELSE IF j > Len(eeg_data[i]) THEN FilterLoop(eeg_data, est, cov, i + 1, 1, in)
    ELSE IF i > Len(est)
    THEN [raised |-> TRUE, eeg_data |-> eeg_data, est |-> est, cov |-> cov]
    ELSE LET k == kalman_filter(eeg_data[i][j], in.process_noise,
                                in.measurement_noise, est[i], cov[i])
         IN IF k.raised
            THEN [raised |-> TRUE, eeg_data |-> eeg_data, est |-> est, cov |-> cov]
            ELSE FilterLoop([eeg_data EXCEPT ![i][j] = k.state_estimate],
                            [est EXCEPT ![i] = k.state_estimate],
                            [cov EXCEPT ![i] = k.estimate_covariance],
                            i, j + 1, in)

\* the mutant: the state is allocated anew in every cycle
Allocate_always(r, in) ==
    IF r.stop THEN r ELSE
    LET num_channels == Len(r.l.eeg_data)
    IN [r EXCEPT !.g.est = Some([i \in 1..num_channels |->
                                     in.initial_state_estimate]),
                 !.g.cov = Some([i \in 1..num_channels |->
                                     in.initial_estimate_covariance])]

\* lines 151-155: the state is allocated when it is None, filter on or off
Allocate(r, in) ==
    IF r.stop THEN r ELSE
    IF r.g.est # None THEN r
    ELSE LET num_channels == Len(r.l.eeg_data)
         IN [r EXCEPT !.g.est = Some([i \in 1..num_channels |->
                                          in.initial_state_estimate]),
                      !.g.cov = Some([i \in 1..num_channels |->
                                          in.initial_estimate_covariance])]

\* lines 157-168
FilterStage(r, in) ==
    IF r.stop THEN r ELSE
    IF ~in.filter_active THEN r
    ELSE LET f == FilterLoop(r.l.eeg_data, r.g.est[1], r.g.cov[1], 1, 1, in)
             r1 == [r EXCEPT !.g.est = Some(f.est), !.g.cov = Some(f.cov),
                             !.l.eeg_data = f.eeg_data]
         IN IF f.raised THEN Error(r1, "kalman_filter") ELSE r1

\* lines 170-176
Resample(r, in) ==
    IF r.stop THEN r ELSE
    IF in.fail = "resample" THEN Error(r, in.fail)
    ELSE LET out == [i \in 1..Len(r.l.eeg_data) |->
                        resample(r.l.eeg_data[i], in.resample_rate)]
         IN [r EXCEPT !.l.num_channels = Len(r.l.eeg_data),
                      !.l.eeg_data_resampled = out,
                      !.l.num_samples = Len(out[1]),
                      !.t.num_channels = Len(r.l.eeg_data)]

\* lines 178-185
Transform(r, in) ==
    IF r.stop THEN r ELSE
    LET r1 == [r EXCEPT !.t.fft_active = in.fft_active]
    IN IF ~in.fft_active THEN r1
       ELSE IF in.fail = "fft" THEN Error(r1, in.fail)
       ELSE [r1 EXCEPT !.l.fft_data = [i \in 1..r.l.num_channels |->
                                          absfft(r.l.eeg_data_resampled[i])]]

\* f'chan{chan+1}' and f'fft_chan{chan+1}' for chan in range(num_channels)
ChanNames(prefix, num_channels) == [c \in 1..num_channels |-> prefix \o str(c)]

\* lines 187-207: clear, append the channels, set the length, write
Publish(r, in) ==
    IF r.stop THEN r ELSE
    IF in.fail = "clear" THEN Error(r, in.fail)
    ELSE LET C == r.l.num_channels
             r1 == [r EXCEPT !.t.cleared = TRUE, !.g.chop.chans = <<>>,
                             !.g.chop.vals = <<>>]
             chans == ChanNames(S_chan, C)
                      \o (IF in.fft_active THEN ChanNames(S_fft_chan, C) ELSE <<>>)
             zeros == [c \in 1..Len(chans) |-> [k \in 1..r.l.num_samples |-> Num(0)]]
             r2 == [r1 EXCEPT !.g.chop.chans = chans,
                              !.g.chop.numSamples = r.l.num_samples,
                              !.g.chop.vals = zeros]
         IN IF in.fail = "appendChan" THEN Error(r1, in.fail)
            ELSE IF in.fail = "write" THEN Error(r2, in.fail)
            ELSE [r2 EXCEPT !.g.chop.vals =
                     r.l.eeg_data_resampled
                     \o (IF in.fft_active THEN r.l.fft_data ELSE <<>>)]

\* lines 209-229
Route(r, in) ==
    IF r.stop THEN r ELSE
    LET sel == channels_to_send(in.osc_channels, r.l.num_channels, in.fft_active)
    IN IF sel.raised THEN Error(r, "int")
       ELSE [r EXCEPT !.t.selection = Some(sel.channels_to_send)]

\* the mutant: a spectral index is looked up although FFT is off
Value_nofftcheck(chan, num_channels, fft_active, eeg_data_resampled, fft_data, sample_idx) ==
    IF chan < num_channels THEN <<eeg_data_resampled[chan + 1][sample_idx + 1]>>
    ELSE <<eeg_data_resampled[chan - num_channels + 1][sample_idx + 1]>>

\* lines 235-240: what one routed channel adds to the message
Value(chan, num_channels, fft_active, eeg_data_resampled, fft_data, sample_idx) ==
    IF chan < num_channels THEN <<eeg_data_resampled[chan + 1][sample_idx + 1]>>
    ELSE IF fft_active
    THEN LET fft_chan == chan - num_channels
         IN IF fft_chan < num_channels THEN <<fft_data[fft_chan + 1][sample_idx + 1]>>
            ELSE <<>>
    ELSE <<>>

\* lines 233-240
RECURSIVE message(_, _, _, _, _, _)
message(chans, num_channels, fft_active, eeg_data_resampled, fft_data, sample_idx) ==
    IF chans = <<>> THEN <<>>
    ELSE Value(chans[1], num_channels, fft_active, eeg_data_resampled, fft_data, sample_idx)
         \o message(Tail(chans), num_channels, fft_active, eeg_data_resampled,
                    fft_data, sample_idx)

\* the mutant: min(num_samples, fft_num_samples), whether or not the FFT ran
ToSend_short(num_samples, fft_num_samples, fft_active) ==
    IF num_samples < fft_num_samples THEN num_samples ELSE fft_num_samples

\* line 232: range(min(num_samples, fft_num_samples if fft_active else num_samples))
ToSend(num_samples, fft_num_samples, fft_active) ==
    LET other == IF fft_active THEN fft_num_samples ELSE num_samples
    IN IF num_samples < other THEN num_samples ELSE other

\* lines 231-241: send_message raises at the first or at the second message
Emit(r, in) ==
    IF r.stop THEN r ELSE
    LET fft_num_samples == IF in.fft_active THEN Len(r.l.fft_data[1]) ELSE 0
        n == ToSend(r.l.num_samples, fft_num_samples, in.fft_active)
        ok == IF in.fail = "send_message" THEN 0
              ELSE IF in.fail = "send_message_2" /\ n >= 2 THEN 1 ELSE n
        sent == [k \in 1..ok |->
                    [client |-> r.g.osc_client, address |-> in.osc_message,
                     value |-> message(r.t.selection[1], r.l.num_channels, in.fft_active,
                                       r.l.eeg_data_resampled, r.l.fft_data, k - 1)]]
        r1 == [r EXCEPT !.t.sent = sent]
    IN IF ok < n THEN Error(r1, "send_message") ELSE r1

\* the mutant: the cleanup runs when 60 seconds or more have passed
Due_atleast(current_time, last) == current_time - last >= CleanupInterval

\* line 245
Due(current_time, last) == current_time - last > CleanupInterval

\* lines 243-248
Cleanup(r, current_time) ==
    IF r.stop THEN r ELSE
    IF Due(current_time, r.g.last)
    THEN [r EXCEPT !.t.cleanup = TRUE, !.g.last = current_time]
    ELSE r

Finish(r) == IF r.stop THEN r ELSE Stop(r, "done", "")

\* the whole call, at clock reading current_time; a stage leaves a call
\* that has ended as it is
Run(in, current_time) ==
    LET r1 == BoardId(Start(in), in)
        r2 == OpenBoard(r1, in)
        r3 == OpenSink(r2, in)
        r4 == Acquire(r3, in)
        r5 == Allocate(r4, in)
        r6 == FilterStage(r5, in)
        r7 == Resample(r6, in)
        r8 == Transform(r7, in)
        r9 == Publish(r8, in)
        r10 == Route(r9, in)
        r11 == Emit(r10, in)
        r12 == Cleanup(r11, current_time)
    IN Finish(r12)

-----------------------------------------------------------------------------
(* The inputs of a cook: the parameters of the operator and what the       *)
(* environment does during the call.                                       *)

FailPoints == {"none", "BoardShim", "prepare_session", "start_stream",
               "SimpleUDPClient", "get_current_board_data", "resample", "fft",
               "clear", "appendChan", "write", "send_message", "send_message_2"}

BoardNames == {"BOARD_A", "BOARD_B", ""}     \* "" is no member of BoardIds

S_sp == <<" ">>
S_X == <<"X">>
Selections ==
    {S_star, <<>>,
     S_chan \o str(1),
     S_chan \o str(99),
     S_chan \o str(2) \o S_sp \o S_fft_chan \o str(1) \o S_sp \o S_chan \o str(99),
     S_fft_chan \o str(1) \o S_sp \o S_chan \o str(1) \o S_sp \o S_chan \o str(1),
     S_chan \o S_X}

\* (process_noise, measurement_noise, initial estimate, initial covariance)
FilterSettings ==
    {<<Num(0), Num(0), Num(0), Num(0)>>, <<Num(0), Num(0), Num(0), Num(1)>>,
     <<Num(0), Num(1), Num(0), Num(1)>>, <<Num(1), Num(1), Num(1), Num(0)>>}

Steps == {0, 1, CleanupInterval - 1, CleanupInterval, CleanupInterval + 1}

\* the defaults of onSetupParameters, lines 86-93 (a float or toggle that is
\* given no default is 0 / off); two samples stand for the window of 250
Base ==
    [board_name |-> "BOARD_A", serial_port |-> "/dev/tty.Bluetooth-Incoming-Port",
     osc_address |-> "127.0.0.1", osc_port |-> 6448, fail |-> "none",
     samples |-> 2, filter_active |-> FALSE,
     process_noise |-> Num(0), measurement_noise |-> Num(0),
     initial_state_estimate |-> Num(0), initial_estimate_covariance |-> Num(0),
     resample_rate |-> 2, fft_active |-> FALSE, osc_message |-> "/wek/inputs",
     osc_channels |-> S_star, dt |-> 0]

\* what can go wrong, with either board, FFT on or off, and a selection
\* that parses or does not
FailureInputs ==
    {[Base EXCEPT !.fail = f, !.board_name = b, !.fft_active = x,
                  !.serial_port = p, !.osc_channels = c] :
        f \in FailPoints, b \in BoardNames, x \in BOOLEAN,
        p \in {Base.serial_port, "COM3"}, c \in {S_star, S_chan \o S_X}}
    \cup
    {[Base EXCEPT !.fail = f, !.osc_address = "10.0.0.2", !.osc_port = 9000] :
        f \in {"none", "prepare_session", "SimpleUDPClient", "send_message"}}

\* what is routed and sent
EmitInputs ==
    {[Base EXCEPT !.osc_channels = c, !.fft_active = x, !.resample_rate = T,
                  !.samples = n, !.fail = f, !.osc_message = m] :
        c \in Selections, x \in BOOLEAN, T \in {1, 2}, n \in {1, 2},
        f \in {"none", "send_message_2"}, m \in {Base.osc_message, "/eeg"}}

\* the filter, on and off
FilterInputs ==
    {[Base EXCEPT !.filter_active = a, !.process_noise = s[1],
                  !.measurement_noise = s[2], !.initial_state_estimate = s[3],
                  !.initial_estimate_covariance = s[4], !.samples = n,
                  !.board_name = b] :
        a \in BOOLEAN, s \in FilterSettings, n \in {0, 1, 2},
        b \in {"BOARD_A", "BOARD_B"}}

\* the passing of time between cooks
ClockInputs ==
    {[Base EXCEPT !.dt = d, !.fail = f, !.samples = n] :
        d \in Steps, f \in {"none", "BoardShim", "write", "send_message"},
        n \in {0, 2}}

\* the Kalman state stays within the denominators the model keeps
StateBounded(g) ==
    IF g.est = None THEN TRUE
    ELSE \A i \in 1..Len(g.est[1]) :
            g.est[1][i].d <= MaxState /\ g.cov[1][i].d <= MaxState

-----------------------------------------------------------------------------
(* The program: the host calls onCook again and again, one call at a time. *)

Init == /\ kf = Off
        /\ rt = Off
        /\ \E nm \in Names : Globals0(nm)

onCook(in) ==
    /\ now + in.dt <= MaxClock
    /\ \E r \in {Run(in, now + in.dt)} :
          /\ StateBounded(r.g)
          /\ now' = now + in.dt
          /\ board' = r.g.board
          /\ params' = r.g.params
          /\ osc_client' = r.g.osc_client
          /\ kalman_state_estimates' = r.g.est
          /\ kalman_estimate_covariances' = r.g.cov
          /\ last_cleanup_time' = r.g.last
          /\ name' = r.g.name
          /\ chop' = r.g.chop
          /\ cycle' = r.t
          /\ cleanups' = IF r.t.cleanup THEN Append(cleanups, now + in.dt)
                         ELSE cleanups
    /\ UNCHANGED <<kf, rt>>

Next == \E in \in FailureInputs : onCook(in)

Spec == Init /\ [][Next]_vars

NextEmit == \E in \in EmitInputs : onCook(in)

SpecEmit == Init /\ [][NextEmit]_vars

NextFilter == \E in \in FilterInputs : onCook(in)

SpecFilter == Init /\ [][NextFilter]_vars

NextClock == \E in \in ClockInputs : onCook(in)

SpecClock == Init /\ [][NextClock]_vars

-----------------------------------------------------------------------------
(* The claims.                                                             *)

\* C1: a cycle that starts with no device session and fails to open one
\* leaves the session absent and the sink, the Filter State and the
\* housekeeping timestamp as they were.
C1_OpenFailureMutatesNothing ==
    [][(board = None /\ cycle'.result = "open_failed")
          => /\ board' = None
             /\ osc_client' = osc_client
             /\ kalman_state_estimates' = kalman_state_estimates
             /\ kalman_estimate_covariances' = kalman_estimate_covariances
             /\ last_cleanup_time' = last_cleanup_time]_vars

\* C1: the case: prepare_session raised and the unprepared BoardShim stayed
C1_Witness ==
    /\ cycle.result = "open_failed"
    /\ cycle.step = "prepare_session"
    /\ board # None

\* C2: after a cycle whose open attempt failed, the next cycle that gets to
\* the device-ready check attempts to open the device again.
C2_RetryAfterFailedOpen ==
    [][(cycle.result = "open_failed" /\ cycle'.result # "raised")
          => cycle'.open_attempted]_vars

\* C3: no failure of a collaborator is propagated out of a cycle: every call
\* of onCook returns normally.
C3_NothingPropagates == cycle.result # "raised"

\* C4: a cycle that does not complete leaves the Output Channel Set as it
\* was before the cycle.
C4_NoPartialOutput ==
    [][cycle'.result # "done" => chop' = chop]_vars

\* C5: when the channel selection resolves to no index, no message is sent
\* in that cycle.
C5_EmptySelectionSendsNothing ==
    cycle.selection = Some(<<>>) => cycle.sent = <<>>

\* the published value of logical channel i at the k-th output sample
Published(i, k) == chop.vals[i + 1][k]

\* C6 as claimed: every message emitted in a cycle has one value per index of
\* the resolved selection, in selection order.
C6_OneValuePerIndex ==
    IF cycle.selection = None THEN cycle.sent = <<>>
    ELSE LET sel == cycle.selection[1]
         IN \A k \in 1..Len(cycle.sent) :
               LET v == cycle.sent[k].value
               IN IF Len(v) # Len(sel) THEN FALSE
                  ELSE \A p \in 1..Len(sel) :
                          sel[p] + 1 \in DOMAIN chop.vals
                             => v[p] = Published(sel[p], k)

\* the indices of a selection that have a value: the raw ones, and the
\* spectral ones when the spectral transform is active
RECURSIVE Carried(_, _, _)
Carried(sel, C, fft) ==
    IF sel = <<>> THEN <<>>
    ELSE (IF sel[1] < C \/ fft THEN <<sel[1]>> ELSE <<>>)
         \o Carried(Tail(sel), C, fft)

\* C6 as amended: every message emitted in a cycle holds, in selection
\* order, the published value of each raw index of the selection and, when
\* the spectral transform is active, of each spectral index; a spectral
\* index adds no value while the transform is inactive.
C6_OneValuePerCarriedIndex ==
    IF cycle.selection = None THEN cycle.sent = <<>>
    ELSE LET car == Carried(cycle.selection[1], cycle.num_channels, cycle.fft_active)
         IN \A k \in 1..Len(cycle.sent) :
               LET v == cycle.sent[k].value
               IN IF Len(v) # Len(car) THEN FALSE
                  ELSE \A p \in 1..Len(car) : v[p] = Published(car[p], k)

\* C6: the case: "fft_chan1 chan1 chan1" with two raw channels and the
\* transform inactive resolves to [2, 0, 0] and each message has two values
C6_Witness ==
    /\ cycle.selection = Some(<<2, 0, 0>>)
    /\ ~cycle.fft_active
    /\ cycle.num_channels = 2
    /\ Len(cycle.sent) = 2
    /\ Len(cycle.sent[1].value) = 2

\* what the grammar of the selection says a list of tokens resolves to
RECURSIVE Resolved(_, _)
Resolved(toks, C) ==
    IF toks = <<>> THEN <<>>
    ELSE LET t == toks[1]
         IN (IF 1 <= t.N /\ t.N <= C
             THEN <<IF t.kind = "chan" THEN t.N - 1 ELSE C + t.N - 1>>
             ELSE <<>>)
            \o Resolved(Tail(toks), C)

\* C7: a selection other than "*" made of tokens chan<N> and fft_chan<N>
\* resolves to N-1 and C+N-1 for the tokens with 1 <= N <= C, in token
\* order, duplicates kept, the others dropped.
C7_ExplicitSelection ==
    (rt.pc = "out" /\ ~rt.star)
       => /\ ~rt.out.raised
          /\ rt.out.channels_to_send = Resolved(rt.tokens, rt.num_channels)

\* C7: the case: "chan2 fft_chan1 chan99" with C = 4 yields [1, 4]
C7_Witness ==
    /\ rt.pc = "out"
    /\ rt.osc_channels = S_chan \o <<"2", " ">> \o S_fft_chan \o <<"1", " ">>
                         \o S_chan \o <<"9", "9">>
    /\ rt.num_channels = 4
    /\ rt.out.channels_to_send = <<1, 4>>

\* C8: the selection "*" resolves to [0..C-1] when the spectral transform is
\* inactive and to [0..2C-1] when it is active.
C8_StarSelection ==
    (rt.pc = "out" /\ rt.star)
       => LET out == rt.out.channels_to_send
              C == rt.num_channels
          IN /\ ~rt.out.raised
             /\ Len(out) = (IF rt.fft_active THEN 2 * C ELSE C)
             /\ \A i \in 1..Len(out) : out[i] = i - 1

\* C8: the case: "*" with C = 4 yields [0,1,2,3], not the eight indices,
\* while the spectral transform is inactive
C8_Witness ==
    /\ rt.pc = "out" /\ rt.star /\ rt.num_channels = 4 /\ ~rt.fft_active
    /\ rt.out.channels_to_send = <<0, 1, 2, 3>>

\* C9: two consecutive housekeeping passes are more than 60 seconds apart,
\* and the first is more than 60 seconds after the timer's initial value.
C9_CleanupsApart ==
    \A i \in 1..Len(cleanups) :
        cleanups[i] - (IF i = 1 THEN InitTime ELSE cleanups[i - 1]) > 60

\* C9: the case: the housekeeping pass has run twice
C9_Witness == Len(cleanups) = 2 /\ cycle.cleanup

\* C10: for finite inputs one step of the filter returns a covariance that
\* is greater than 0 and a finite estimate.
C10_PositiveCovariance ==
    (/\ kf.pc = "out"
     /\ Finite(kf.state_estimate) /\ Finite(kf.estimate_covariance))
       => /\ ~kf.out.raised
          /\ Finite(kf.out.state_estimate)
          /\ Positive(kf.out.estimate_covariance)


\* the update formula of the filter on a prior (e, c): what it returns, or
\* that the division by zero raised
UpdateFormula(z, q, m, e, c) ==
    LET c1 == Add(c, q)
    IN IF IsZero(Add(c1, m)) THEN [raised |-> TRUE]
       ELSE LET gain == Div(c1, Add(c1, m))
            IN [raised |-> FALSE,
                state_estimate |-> Add(e, Mul(gain, Sub(z, e))),
                estimate_covariance |-> Mul(Sub(Num(1), gain), c1)]

\* a call of the filter came out as the formula does
SameOutcome(out, f) ==
    IF f.raised THEN out.raised
    ELSE /\ ~out.raised
         /\ out.state_estimate = f.state_estimate
         /\ out.estimate_covariance = f.estimate_covariance

\* C11: with a NaN prior estimate or covariance the filter returns what the
\* update formula gives on the prior (0, 1), whatever the other prior value;
\* with no NaN prior it returns what the formula gives on the priors.
C11_NaNPriorIsReset ==
    kf.pc = "out"
       => IF IsNaN(kf.state_estimate) \/ IsNaN(kf.estimate_covariance)
          THEN SameOutcome(kf.out, UpdateFormula(kf.data, kf.process_noise,
                                                 kf.measurement_noise, Num(0), Num(1)))
          ELSE SameOutcome(kf.out, UpdateFormula(kf.data, kf.process_noise,
                                                 kf.measurement_noise, kf.state_estimate,
                                                 kf.estimate_covariance))

\* C11: the case: only the estimate is NaN, the covariance is 2, and the
\* filter returns the reset step on observation 1 with noises 0 and 1:
\* estimate 1/2, covariance 1/2
C11_Witness ==
    /\ kf.pc = "out"
    /\ IsNaN(kf.state_estimate) /\ kf.estimate_covariance = Num(2)
    /\ kf.data = Num(1) /\ kf.process_noise = Num(0) /\ kf.measurement_noise = Num(1)
    /\ kf.out.state_estimate = Norm(1, 2)
    /\ kf.out.estimate_covariance = Norm(1, 2)


\* the session is open and streaming, and is the one there was, if any
SessionKept == /\ board' # None
               /\ board'[1].prepared /\ board'[1].streaming
               /\ board # None => board' = board

\* the sink is there, and is the one there was, if any
SinkKept == /\ osc_client' # None
            /\ osc_client # None => osc_client' = osc_client

\* C12: a cycle whose poll returns no samples ends without error, sends no
\* message, leaves the Output Channel Set, the Filter State and the
\* housekeeping timestamp as they were, and neither closes nor replaces the
\* device session and the sink the poll was made with.
C12_EmptyPollSkips ==
    [][cycle'.result = "no_data"
          => /\ cycle'.sent = <<>>
             /\ ~cycle'.cleared /\ chop' = chop
             /\ kalman_state_estimates' = kalman_state_estimates
             /\ kalman_estimate_covariances' = kalman_estimate_covariances
             /\ ~cycle'.cleanup /\ last_cleanup_time' = last_cleanup_time
             /\ SessionKept /\ SinkKept]_vars

\* C12: the case: the poll returned nothing in a cycle in which the
\* housekeeping pass was due and the Filter State not yet allocated
C12_Witness ==
    /\ cycle.result = "no_data"
    /\ now - last_cleanup_time > CleanupInterval
    /\ kalman_state_estimates = None


\* the readings of the raw channels as the board of session b gives them
ReadingsOf(b, p) ==
    LET data == get_current_board_data(b.id, p.samples)
        rows == get_eeg_channels(BoardIds[p.board_name])
    IN [i \in 1..Len(rows) |-> data[rows[i] + 1]]

Readings(p) == ReadingsOf(board[1], p)

C13_Example ==
    /\ cycle.result = "done"
    /\ ~cycle.fft_active
    /\ cycle.par[1].osc_channels = S_star
    /\ cycle.par[1].samples = 2 /\ cycle.par[1].resample_rate = 2
    /\ Len(cycle.sent) = 2
    /\ cycle.sent[2].value = <<Num(4), Num(5)>>


\* C14: a processing error in the steps after the ready checks leaves the
\* device session and the sink as the ready checks left them, neither
\* closed, cleared nor replaced, and the cycle after it opens no device and
\* constructs no sink.
C14_ErrorKeepsConnections ==
    [][/\ cycle'.result = "error"
             => /\ board' # None /\ osc_client' # None
                /\ board # None => board' = board /\ ~cycle'.open_attempted
                /\ board = None => cycle'.open_attempted
                /\ osc_client # None => osc_client' = osc_client
                                        /\ ~cycle'.sink_constructed
                /\ osc_client = None => cycle'.sink_constructed
       /\ cycle.result = "error"
             => /\ ~cycle'.open_attempted /\ ~cycle'.sink_constructed
                /\ board' = board /\ osc_client' = osc_client]_vars

\* C14: the case: the second send of a cycle failed, after the output was
\* published, in a cycle that came after the one that opened the device
C14_Witness ==
    /\ cycle.result = "error"
    /\ cycle.step = "send_message"
    /\ cycle.cleared
    /\ ~cycle.open_attempted /\ ~cycle.sink_constructed
    /\ board # None /\ board[1].streaming
    /\ osc_client # None


\* the number of raw channels of the cycle that ends in the next state
Channels == Len(get_eeg_channels(BoardIds[cycle'.par[1].board_name]))

\* the Filter State as it is when the filter stage of that cycle begins:
\* the one the cycle found, or the one step 4 allocates from the cycle's
\* initial settings
EstBefore ==
    IF kalman_state_estimates # None THEN kalman_state_estimates
    ELSE Some([i \in 1..Channels |-> cycle'.par[1].initial_state_estimate])

CovBefore ==
    IF kalman_estimate_covariances # None THEN kalman_estimate_covariances
    ELSE Some([i \in 1..Channels |-> cycle'.par[1].initial_estimate_covariance])

\* C15 as claimed: when the filter stage of a cycle fails at some channel
\* and sample, the estimates and covariances of all channels after the
\* cycle are the ones from before the filter stage of that cycle.
C15_FailedFilterRestoresState ==
    [][(cycle'.result = "error" /\ cycle'.step = "kalman_filter")
          => /\ kalman_state_estimates' = EstBefore
             /\ kalman_estimate_covariances' = CovBefore]_vars

\* C16 as claimed: a cycle with the filter disabled neither allocates the
\* Filter State nor changes it.
C16_DisabledFilterLeavesState ==
    [][~cycle'.par[1].filter_active
          => /\ kalman_state_estimates' = kalman_state_estimates
             /\ kalman_estimate_covariances' = kalman_estimate_covariances]_vars


\* one channel on its own: the samples j, j+1, ... of a row filtered in
\* order, each with the pair the sample before it produced, from (e, c);
\* a sample that raises ends it with the pair it was given
RECURSIVE Carry(_, _, _, _, _)
Carry(row, j, p, e, c) ==
    IF j > Len(row) THEN [est |-> e, cov |-> c, raised |-> FALSE]
    ELSE LET k == kalman_filter(row[j], p.process_noise, p.measurement_noise, e, c)
         IN IF k.raised THEN [est |-> e, cov |-> c, raised |-> TRUE]
            ELSE Carry(row, j + 1, p, k.state_estimate, k.estimate_covariance)

\* the filter stage ran in the cycle that ends in the next state
FilterRan ==
    /\ cycle'.par[1].filter_active
    /\ cycle'.acquired
    /\ cycle'.result \in {"done", "error"}
    /\ cycle'.step \notin {"get_current_board_data", "eeg_channels"}

\* channel i of that cycle carried from the state the stage began with
Carried17(i) ==
    Carry(ReadingsOf(board'[1], cycle'.par[1])[i], 1, cycle'.par[1],
          EstBefore[1][i], CovBefore[1][i])

\* the stage went as far as channel i
Reached(i) == i <= Channels /\ \A h \in 1..(i - 1) : ~Carried17(h).raised

\* C17: the Filter State is carried forward and never reset: a cycle that
\* runs the filter stage filters the first sample of each channel with the
\* pair the state held when the cycle began, which is the pair the last
\* filtered sample of the channel produced, and each later sample with the
\* pair of the sample before it; a cycle that does not run the filter stage
\* leaves an allocated state as it is, and no cycle drops it.
C17_StateCarriedForward ==
    [][/\ kalman_state_estimates # None
             => /\ kalman_state_estimates' # None
                /\ Len(kalman_state_estimates'[1]) = Len(kalman_state_estimates[1])
       /\ IF FilterRan
          THEN \A i \in 1..Len(kalman_state_estimates'[1]) :
                  IF Reached(i)
                  THEN /\ kalman_state_estimates'[1][i] = Carried17(i).est
                       /\ kalman_estimate_covariances'[1][i] = Carried17(i).cov
                  ELSE /\ kalman_state_estimates'[1][i] = EstBefore[1][i]
                       /\ kalman_estimate_covariances'[1][i] = CovBefore[1][i]
          ELSE kalman_state_estimates # None
                  => /\ kalman_state_estimates' = kalman_state_estimates
                     /\ kalman_estimate_covariances' = kalman_estimate_covariances]_vars

\* C17: the case: two cycles of one sample each, process noise 0 and
\* measurement noise 1 from (0, 1): the first leaves (1, 1/2), and the
\* second, carrying it, (4/3, 1/3)
C17_Witness ==
    /\ cycle.result = "done"
    /\ cycle.par[1].filter_active
    /\ cycle.par[1].samples = 1
    /\ kalman_state_estimates # None
    /\ kalman_state_estimates[1][1] = Div(Num(4), Num(3))
    /\ kalman_estimate_covariances[1][1] = Div(Num(1), Num(3))


\* C18: the sink is constructed at most once, in a cycle in which the
\* device-ready check has passed, from the address and the port configured
\* in that cycle; once present it is never replaced, and the sink-ready
\* check of a later cycle constructs nothing.
C18_SinkConstructedOnce ==
    [][/\ osc_client # None
             => osc_client' = osc_client /\ ~cycle'.sink_constructed
       /\ cycle'.sink_constructed
             => /\ osc_client = None
                /\ osc_client' = Some([address |-> cycle'.par[1].osc_address,
                                       port |-> cycle'.par[1].osc_port])
                /\ board' # None
                /\ cycle'.result # "open_failed"
       /\ osc_client' # osc_client => cycle'.sink_constructed]_vars

\* C18: the case: the sink was constructed for 127.0.0.1:6448 in an earlier
\* cycle, and a cycle configured with 10.0.0.2:9000 has run with it
C18_Witness ==
    /\ osc_client = Some([address |-> "127.0.0.1", port |-> 6448])
    /\ cycle.par # None
    /\ cycle.par[1].osc_address = "10.0.0.2"
    /\ cycle.par[1].osc_port = 9000
    /\ ~cycle.sink_constructed
    /\ cycle.result = "done"


\* the filter stage ran in the cycle that has just ended
FilterStageRan ==
    /\ cycle.par # None
    /\ cycle.par[1].filter_active
    /\ cycle.acquired
    /\ cycle.result \in {"done", "error"}
    /\ cycle.step \notin {"get_current_board_data", "eeg_channels"}

\* C19 as claimed: in every cycle that runs the filter stage the Filter
\* State holds one (estimate, covariance) pair per raw channel of that
\* cycle's Sample Buffer, whatever board was configured in earlier cycles.
C19_OnePairPerChannel ==
    FilterStageRan
       => LET C == Len(get_eeg_channels(BoardIds[cycle.par[1].board_name]))
          IN /\ Len(kalman_state_estimates[1]) = C
             /\ Len(kalman_estimate_covariances[1]) = C

\* C20 as claimed: the channel indices that slice the polled data of a
\* cycle are those of the board identity the device session was opened
\* with.
C20_SlicedWithSessionBoard ==
    cycle.sliced_with # None => cycle.sliced_with[1] = board[1].id


====
